---- MODULE Spec2Model ----
(***************************************************************************)
(* deei: a dependency-injection resolution engine.  A tree of DeeiContext  *)
(* nodes is built from module metadata (providers, imports, exports);      *)
(* names are resolved on demand, each context enters at most once, scoped  *)
(* instances are pushed on per-context AsyncExitStacks and released when   *)
(* the root context exits.                                                 *)
(*                                                                         *)
(* The program is a single cooperative flow, so every public coroutine     *)
(* (bootstrap, get_dependency, __aexit__) is one action whose effect is    *)
(* computed by recursive operators that thread the contexts' fields.       *)
(***************************************************************************)
EXTENDS Integers, Sequences, FiniteSets, TLC

VARIABLES
    g,          \* the declared module graph (fixed after DeeiContext.__init__)
    ctx,        \* the fields of every DeeiContext that change after __init__
    pc,         \* position of the bootstrap() coroutine
    res,        \* outcome of the last call made on a context
    ops         \* number of direct get_dependency calls made so far

vars == <<g, ctx, pc, res, ops>>

\* Number of direct get_dependency calls explored in one run.
MaxOps == 1

\* DeeiNullContext, the default parent of a root context.
NullContext == 0

\* self._target_instance = None
None == <<0, 0>>

(***************************************************************************)
(* helpers.camelcase_into_snakecase on strings given as sequences of       *)
(* one-character strings.                                                  *)
(***************************************************************************)
UpperCase == {"A", "B", "H", "M", "P", "Q", "R", "S", "X", "Y", "Z"}

Lower(c) ==
    CASE c = "A" -> "a" [] c = "B" -> "b" [] c = "H" -> "h" [] c = "M" -> "m"
      [] c = "P" -> "p" [] c = "Q" -> "q" [] c = "R" -> "r" [] c = "S" -> "s"
      [] c = "X" -> "x" [] c = "Y" -> "y" [] c = "Z" -> "z" [] OTHER -> c

RECURSIVE SubWordBound(_, _)
\* re.sub(r'([^A-Z])([A-Z])', r'\1_\2', s), scanning from position i
SubWordBound(s, i) ==
    IF i > Len(s) THEN <<>>
    ELSE IF i < Len(s) /\ s[i] \notin UpperCase /\ s[i + 1] \in UpperCase
         THEN <<s[i], "_", s[i + 1]>> \o SubWordBound(s, i + 2)
         ELSE <<s[i]>> \o SubWordBound(s, i + 1)

camelcase_into_snakecase(s) ==
    LET t == SubWordBound(s, 1) IN [i \in 1..Len(t) |-> Lower(t[i])]

(***************************************************************************)
(* The declared graph.  g.nodes are the DeeiContext objects that           *)
(* DeeiContext.__init__ creates for the root target (node 1) and,          *)
(* recursively, for every provider and import of every module.             *)
(***************************************************************************)
Root == 1

target_name(n) == g.target[n]            \* self._target.__name__
parent(n) == g.parent[n]                 \* self._parent
providers(n) == g.providers[n]           \* self._providers
imports(n) == g.imports[n]               \* self._imports
is_module(n) == g.is_module[n]           \* self._is_module
hints(n) == g.hints[n]                   \* get_type_hints(target.__init__) minus 'return'

\* self._exports: the import contexts whose target is in module_metadata.exports
exports(n) == SelectSeq(imports(n), LAMBDA m : m \in g.exports[n])

get_name(n) == camelcase_into_snakecase(target_name(n))

\* hasattr(instance, '__aenter__') and hasattr(instance, '__aexit__')
is_async_context_manager(n) == n \in g.scoped

\* (variant) the provider loop takes the first provider whatever its name
OwnProvider_unnamed(n, name) ==
    IF providers(n) = <<>> THEN 0 ELSE providers(n)[1]

\* index of the first own provider whose derived name is `name`, 0 if none
OwnProvider(n, name) ==
    LET hit == {i \in DOMAIN providers(n) : name = get_name(providers(n)[i])}
    IN IF hit = {} THEN 0
       ELSE providers(n)[CHOOSE i \in hit : \A j \in hit : i <= j]

(***************************************************************************)
(* Visibility queries.  They are pure and recursive; a call that reaches   *)
(* itself again (same context, same name) recurses without bound, which    *)
(* Python ends with RecursionError: outcome "R".  `active` is the chain of *)
(* contexts whose can_provide frame is on the call stack.                  *)
(***************************************************************************)
RECURSIVE can_provide(_, _, _)
RECURSIVE AnyCanProvide(_, _, _, _)

\* for c in seq[i..]: if c.can_provide(name): return True
AnyCanProvide(seq, i, name, active) ==
    IF i > Len(seq) THEN "F"
    ELSE LET r == can_provide(seq[i], name, active)
         IN IF r = "F" THEN AnyCanProvide(seq, i + 1, name, active) ELSE r

can_provide(n, name, active) ==
    IF n = NullContext THEN "F"
    ELSE IF n \in active THEN "R"
    ELSE IF OwnProvider(n, name) # 0 THEN "T"
    ELSE LET act == active \cup {n}
             imp == AnyCanProvide(imports(n), 1, name, act)
         IN IF imp # "F" THEN imp ELSE can_provide(parent(n), name, act)

can_export(n, name) ==
    IF n = NullContext THEN "F"
    ELSE IF ~is_module(n) THEN "F"
    ELSE IF OwnProvider(n, name) # 0 THEN "T"
    ELSE AnyCanProvide(exports(n), 1, name, {})

RECURSIVE FirstExporting(_, _, _)
\* for import_ in seq[i..]: if import_.can_export(name): <found>
\* <<"T", import_>>, <<"R", 0>> when a query recursed, <<"F", 0>> when none
FirstExporting(seq, i, name) ==
    IF i > Len(seq) THEN <<"F", 0>>
    ELSE LET r == can_export(seq[i], name)
         IN IF r = "T" THEN <<"T", seq[i]>>
            ELSE IF r = "R" THEN <<"R", 0>>
            ELSE FirstExporting(seq, i + 1, name)

(***************************************************************************)
(* Resolution and lifecycle.  A call takes the contexts' fields c and      *)
(* gives [c, out, val]: the fields afterwards, "ok" or the exception that  *)
(* left the call, and the returned value.  c also carries the history the  *)
(* properties read: log (construct / acquire / release events in order)    *)
(* and built (constructions per context).                                  *)
(***************************************************************************)
Return(c, v) == [c |-> c, out |-> "ok", val |-> v]
Raise(c, e) == [c |-> c, out |-> e, val |-> None]

\* args: the to_inject of a construction; entered: the contexts whose
\* _aentered flag is set when the event happens
Event(c, kind, inst, args) ==
    [ev |-> kind, inst |-> inst, args |-> args,
     entered |-> {m \in DOMAIN c.aentered : c.aentered[m]}]

\* self._exit_stack: push a callback (a context's or an instance's __aexit__)
push_exit(c, n, entry) ==
    [c EXCEPT !.exit_stack[n] = Append(@, entry)]

\* self._dependencies[name] = dependency
cache_dependency(c, n, name, dependency) ==
    [c EXCEPT !.dependencies[n] =
        [k \in DOMAIN @ \cup {name} |-> IF k = name THEN dependency ELSE @[k]]]

\* async def get_target(self): return self._target_instance
get_target(c, n) == c.target_instance[n]

\* instance = self._target(**to_inject)
construct(c, n, to_inject) ==
    IF n \in g.ctor_fails THEN Raise(c, "ConstructionError")
    ELSE LET instance == <<n, c.built[n] + 1>>
         IN Return([c EXCEPT !.built[n] = @ + 1,
                             !.log = Append(@, Event(c, "construct", instance, to_inject))],
                   instance)

\* what instance.__aenter__() returns: the instance itself, or another object
\* for the targets in g.acquire_returns
acquired_value(instance) ==
    IF instance[1] \in g.acquire_returns THEN <<instance[1], instance[2], "acquired">>
    ELSE instance

\* await self._exit_stack.enter_async_context(instance): the acquire hook
\* runs; when it returns, the instance's release hook is pushed and the
\* hook's value is the value of the call (the event's args record it)
acquire(c, n, instance) ==
    IF n \in g.acquire_fails THEN Raise(c, "AcquireError")
    ELSE Return(push_exit([c EXCEPT !.log = Append(@, Event(c, "acquire", instance,
                                                           acquired_value(instance)))],
                          n, <<"instance", instance>>),
                acquired_value(instance))

\* self._target_instance = instance; self._aentered = True
mark_entered(c, n, instance) ==
    [c EXCEPT !.target_instance[n] = instance, !.aentered[n] = TRUE]

RECURSIVE get_dependency(_, _, _, _)
RECURSIVE aenter(_, _, _)
RECURSIVE resolve_hints(_, _, _, _, _)

\* (variant) the child is entered but its __aexit__ is not registered
enter_unregistered(c, owner, child, active) ==
    aenter(c, child, active)

\* (variant) the child's __aexit__ is registered without entering the child
push_without_entering(c, owner, child, active) ==
    Return(push_exit(c, owner, <<"context", child>>), child)

\* enter_async_context after child.__aenter__ gave r: when it returned,
\* child.__aexit__ is pushed on owner's stack; when it raised, nothing is
registered(r, owner, child) ==
    IF r.out # "ok" THEN r
    ELSE Return(push_exit(r.c, owner, <<"context", child>>), child)

\* await owner._exit_stack.enter_async_context(child)
enter_async_context(c, owner, child, active) ==
    registered(aenter(c, child, active), owner, child)

\* history: the values that get_dependency(name) calls on n have returned
served(r, n, name) ==
    IF r.out = "ok" THEN [r EXCEPT !.c.served[n][name] = @ \cup {r.val}] ELSE r

\* where get_dependency finds a name that is not cached: the own provider of
\* that name, else the first import that can export it, else the parent when
\* it can provide it; a visibility query that recurses without bound raises
route(n, name) ==
    IF OwnProvider(n, name) # 0 THEN <<"provider", OwnProvider(n, name)>>
    ELSE LET import_ == FirstExporting(imports(n), 1, name)
         IN IF import_[1] = "R" THEN <<"RecursionError", 0>>
            ELSE IF import_[1] = "T" THEN <<"import", import_[2]>>
            ELSE LET up == can_provide(parent(n), name, {})
                 IN IF up = "R" THEN <<"RecursionError", 0>>
                    ELSE IF up = "T" THEN <<"parent", parent(n)>>
                    ELSE <<"InjectionError", 0>>

\* after enter_async_context(provider or import_) gave e:
\* await provider.get_target(), or await import_.get_dependency(name)
asked(e, via, name, active) ==
    IF e.out # "ok" THEN e
    ELSE IF via[1] = "provider" THEN Return(e.c, get_target(e.c, via[2]))
    ELSE get_dependency(e.c, via[2], name, active)

\* dependency = self._dependencies[name] = <d>; return dependency
cached(d, n, name) ==
    IF d.out # "ok" THEN d
    ELSE Return(cache_dependency(d.c, n, name, d.val), d.val)

\* get_dependency past the cache check, on the route `via`
fetch(c, n, name, via, active) ==
    IF via[1] \in {"RecursionError", "InjectionError"} THEN Raise(c, via[1])
    \* return await self._parent.get_dependency(name)
    ELSE IF via[1] = "parent" THEN get_dependency(c, via[2], name, active)
    ELSE cached(asked(enter_async_context(c, n, via[2], active), via, name, active),
                n, name)

\* (variant) no memoization: every request builds the provider in a fresh
\* context instead of reusing the cached instance and the entered context
get_dependency_transient(c, n, name, active) ==
    IF n = NullContext THEN Raise(c, "InjectionError")
    ELSE IF <<"get_dependency", n, name>> \in active THEN Raise(c, "RecursionError")
    ELSE served(fetch(IF OwnProvider(n, name) # 0
                      THEN [c EXCEPT !.aentered[OwnProvider(n, name)] = FALSE] ELSE c,
                      n, name, route(n, name),
                      active \cup {<<"get_dependency", n, name>>}),
                n, name)

get_dependency(c, n, name, active) ==
    IF n = NullContext THEN Raise(c, "InjectionError")
    ELSE IF name \in DOMAIN c.dependencies[n]
         THEN served(Return(c, c.dependencies[n][name]), n, name)
    ELSE IF <<"get_dependency", n, name>> \in active THEN Raise(c, "RecursionError")
    ELSE served(fetch(c, n, name, route(n, name),
                      active \cup {<<"get_dependency", n, name>>}),
                n, name)

\* to_inject[attr_name] = <d>, then the remaining hints
injected(d, n, i, to_inject, active) ==
    IF d.out # "ok" THEN d
    ELSE resolve_hints(d.c, n, i + 1,
             [k \in DOMAIN to_inject \cup {hints(n)[i]} |->
                 IF k = hints(n)[i] THEN d.val ELSE to_inject[k]], active)

\* for attr_name in hints[i..]: to_inject[attr_name] = await self.get_dependency(attr_name)
resolve_hints(c, n, i, to_inject, active) ==
    IF i > Len(hints(n)) THEN Return(c, to_inject)
    ELSE injected(get_dependency(c, n, hints(n)[i], active), n, i, to_inject, active)

\* __aenter__ after the instance was entered (or needed no entering)
entered(held, n, instance) ==
    IF held.out # "ok" THEN held
    ELSE Return(mark_entered(held.c, n, instance), n)

\* __aenter__ after the construction: an instance with __aenter__ and
\* __aexit__ is entered on the context's exit stack
constructed(made, n) ==
    IF made.out # "ok" THEN made
    ELSE entered(IF is_async_context_manager(n) THEN acquire(made.c, n, made.val)
                 ELSE made, n, made.val)

\* __aenter__ after the hints were resolved: instance = self._target(**to_inject)
resolved(deps, n) ==
    IF deps.out # "ok" THEN deps
    ELSE constructed(construct(deps.c, n, deps.val), n)

\* DeeiContext.__aenter__
aenter(c, n, active) ==
    IF c.aentered[n] THEN Return(c, n)
    ELSE IF <<"aenter", n>> \in active THEN Raise(c, "RecursionError")
    ELSE resolved(resolve_hints(c, n, 1, <<>>, active \cup {<<"aenter", n>>}), n)

RECURSIVE aexit(_, _)
RECURSIVE aclose(_, _, _)

\* the instance's release hook, called by the exit stack
release(c, instance) ==
    [c |-> [c EXCEPT !.log = Append(@, Event(c, "release", instance, <<>>))],
     out |-> IF instance[1] \in g.release_fails THEN "ReleaseError" ELSE "ok",
     val |-> None]

\* (variant) the unwind stops at the first callback that raises
aclose_stops(c, n, pending) ==
    IF c.exit_stack[n] = <<>> THEN [c |-> c, out |-> pending, val |-> None]
    ELSE LET stack == c.exit_stack[n]
             top == stack[Len(stack)]
             c1 == [c EXCEPT !.exit_stack[n] = SubSeq(stack, 1, Len(stack) - 1)]
             r == IF top[1] = "context" THEN aexit(c1, top[2]) ELSE release(c1, top[2])
         IN IF r.out # "ok" THEN [c |-> r.c, out |-> r.out, val |-> None]
            ELSE aclose(r.c, n, pending)

\* AsyncExitStack.aclose(): callbacks are popped last-in first-out; one that
\* raises does not stop the others; the last exception raised leaves aclose
aclose(c, n, pending) ==
    IF c.exit_stack[n] = <<>> THEN [c |-> c, out |-> pending, val |-> None]
    ELSE LET stack == c.exit_stack[n]
             top == stack[Len(stack)]
             c1 == [c EXCEPT !.exit_stack[n] = SubSeq(stack, 1, Len(stack) - 1)]
             r == IF top[1] = "context" THEN aexit(c1, top[2]) ELSE release(c1, top[2])
         IN aclose(r.c, n, IF r.out # "ok" THEN r.out ELSE pending)

\* DeeiContext.__aexit__
aexit(c, n) == aclose(c, n, "ok")

(***************************************************************************)
(* The module graphs explored.  A graph is what the decorators attach to   *)
(* the target classes, after DeeiContext.__init__ has walked it: contexts  *)
(* 1..k, context 1 the root, each other context a provider or an import of *)
(* its parent.                                                             *)
(***************************************************************************)
NodeIds == 1..5

\* class names of the targets, by context
TargetNames ==
    <<  <<"A", "p", "p">>, <<"H", "t", "S">>, <<"P", "g">>, <<"X">>, <<"y", "Z">>  >>

\* a dependency name no target's class name derives
Missing == <<"z", "z">>

NameOf(n) == camelcase_into_snakecase(TargetNames[n])

RECURSIVE SortedSeq(_)
SortedSeq(S) ==
    IF S = {} THEN <<>>
    ELSE LET m == CHOOSE x \in S : \A y \in S : x <= y
         IN <<m>> \o SortedSeq(S \ {m})

\* par: parent of each context (0 for the root); kind: "module" or "provider";
\* exp: the children listed in their parent's exports.  Siblings are declared
\* in the order of their context numbers.
MkGraph(par, kind, exp, hnt, scoped, cf, af, rf, ar) ==
    LET N == DOMAIN par
        kids(n, k) == {m \in N : par[m] = n /\ kind[m] = k}
    IN [nodes |-> N,
        target |-> [n \in N |-> TargetNames[n]],
        parent |-> par,
        is_module |-> [n \in N |-> kind[n] = "module"],
        providers |-> [n \in N |-> IF kind[n] = "module"
                                   THEN SortedSeq(kids(n, "provider")) ELSE <<>>],
        imports |-> [n \in N |-> IF kind[n] # "module" THEN <<>>
                                 ELSE SortedSeq(kids(n, "module"))],
        exports |-> [n \in N |-> {m \in exp : par[m] = n}],
        hints |-> [n \in N |-> hnt[n]],
        scoped |-> scoped,
        ctor_fails |-> cf,
        acquire_fails |-> af,
        release_fails |-> rf,
        acquire_returns |-> ar]

\* every tree on the contexts 1..k in which only modules have children
ShapesOn(k) ==
    {sh \in [par : [1..k -> 0..(k - 1)], kind : [1..k -> {"module", "provider"}]] :
        /\ sh.par[Root] = 0 /\ sh.kind[Root] = "module"
        /\ \A n \in 2..k :
              /\ sh.par[n] \in 1..(n - 1)
              /\ sh.kind[sh.par[n]] = "module"}

Shape(par, provs) ==
    [par |-> par,
     kind |-> [n \in DOMAIN par |-> IF n \in provs THEN "provider" ELSE "module"]]

ProvidersOf(sh) == {n \in DOMAIN sh.par : sh.kind[n] = "provider"}
ImportsOf(sh) == {n \in DOMAIN sh.par \ {Root} : sh.kind[n] = "module"}

NoHints == [n \in NodeIds |-> <<>>]

\* what the target classes do: which instances are async context managers,
\* whose constructor, acquire hook (__aenter__) or release hook (__aexit__) raises
Behaviour(scoped, cf, af, rf) ==
    [scoped |-> scoped, ctor_fails |-> cf, acquire_fails |-> af, release_fails |-> rf,
     acquire_returns |-> {}]

\* the behaviour b, with the acquire hooks of the targets in ar returning an
\* object other than the instance
Returning(b, ar) == [b EXCEPT !.acquire_returns = ar]

GraphOf(sh, exp, hnt, b) ==
    MkGraph(sh.par, sh.kind, exp, hnt, b.scoped, b.ctor_fails, b.acquire_fails,
            b.release_fails, b.acquire_returns)

\* graphs without constructor parameters: every shape on up to 4 contexts and
\* the chains of imports on 5, with every exports list
ChainShapes ==
    {Shape(<<0, 1, 2, 2, 3>>, {5}), Shape(<<0, 1, 2, 2, 4>>, {5}),
     Shape(<<0, 1, 2, 3, 4>>, {5})}

PlainGraphs ==
    UNION {{GraphOf(sh, exp, NoHints, Behaviour(ProvidersOf(sh), {}, {}, {})) :
               exp \in SUBSET ImportsOf(sh)} :
           sh \in ShapesOn(2) \cup ShapesOn(3) \cup ShapesOn(4) \cup ChainShapes}

\* sequences of lo..hi distinct names of the contexts in S
Orderings(S, lo, hi) ==
    {[i \in DOMAIN q |-> NameOf(q[i])] :
        q \in {q \in UNION {[1..k -> S] : k \in lo..hi} :
                  \A i, j \in DOMAIN q : i # j => q[i] # q[j]}}

HintsOf(h1, h2, h3, h4, h5) == <<h1, h2, h3, h4, h5>>

\* root imports M (2) and provides 3; M provides 4 and 5
TwoNamesShape == Shape(<<0, 1, 1, 2, 2>>, {3, 4, 5})
\* root imports M1 (2) and M2 (3); M1 provides 4, M2 provides 5
SiblingsShape == Shape(<<0, 1, 1, 2, 3>>, {4, 5})
\* root provides 2, 3 and 4
DiamondShape == Shape(<<0, 1, 1, 1>>, {2, 3, 4})

TwoNamesHints ==
    {HintsOf(r, <<>>, p, <<>>, <<>>) :
        r \in Orderings({3, 4, 5}, 2, 3), p \in {<<>>, <<NameOf(4)>>}}
SiblingsHints ==
    {HintsOf(r, <<>>, <<>>, x, q) :
        r \in Orderings({4, 5}, 1, 2),
        x \in {<<>>, <<NameOf(5)>>}, q \in {<<>>, <<NameOf(4)>>}}
DiamondHints ==
    {HintsOf(r, a, b, <<>>, <<>>) :
        r \in Orderings({2, 3}, 2, 2) \cup {<<NameOf(2), NameOf(3), NameOf(4)>>},
        a \in {<<>>, <<NameOf(4)>>}, b \in {<<>>, <<NameOf(4)>>}}

\* every provider scoped and nothing failing; or one hook of one target
\* failing; or every instance scoped; or none; or every provider's acquire
\* hook returning another object
Behaviours(sh) ==
    LET N == DOMAIN sh.par
        P == ProvidersOf(sh)
    IN {Behaviour(P, {}, {}, {}), Behaviour(N, {}, {}, {}), Behaviour({}, {}, {}, {}),
        Returning(Behaviour(P, {}, {}, {}), P)}
       \cup {Behaviour(P, {n}, {}, {}) : n \in N}
       \cup {Behaviour(P, {}, {n}, {}) : n \in P}
       \cup {Behaviour(P, {}, {}, {n}) : n \in P}

\* graphs with constructor parameters: every manifest of a shape with the
\* default behaviour, and every behaviour with one manifest
LifeGraphsOf(sh, hs, h0) ==
    {GraphOf(sh, {}, h, Behaviour(ProvidersOf(sh), {}, {}, {})) : h \in hs}
    \cup {GraphOf(sh, {}, h0, b) : b \in Behaviours(sh)}

LifeGraphs ==
    LifeGraphsOf(TwoNamesShape, TwoNamesHints,
                 HintsOf(<<NameOf(4), NameOf(3), NameOf(5)>>, <<>>, <<>>, <<>>, <<>>))
    \cup LifeGraphsOf(SiblingsShape, SiblingsHints,
                 HintsOf(<<NameOf(5)>>, <<>>, <<>>, <<>>, <<NameOf(4)>>))
    \cup LifeGraphsOf(DiamondShape, DiamondHints,
                 HintsOf(<<NameOf(2), NameOf(3)>>, <<NameOf(4)>>, <<NameOf(4)>>, <<>>, <<>>))

Graphs == PlainGraphs \cup LifeGraphs

AllNames == {NameOf(n) : n \in NodeIds} \cup {Missing}

\* the dependency names a caller may ask for
Names == {get_name(n) : n \in {m \in g.nodes : ~is_module(m)}} \cup {Missing}

(***************************************************************************)
(* The state machine.                                                      *)
(***************************************************************************)
\* DeeiContext.__init__ for every context of the tree
InitContexts ==
    [aentered |-> [n \in NodeIds |-> FALSE],
     exit_stack |-> [n \in NodeIds |-> <<>>],
     dependencies |-> [n \in NodeIds |-> <<>>],
     target_instance |-> [n \in NodeIds |-> None],
     built |-> [n \in NodeIds |-> 0],
     served |-> [n \in NodeIds |-> [name \in AllNames |-> {}]],
     asked |-> {},
     log |-> <<>>]

NoCall == [op |-> "none", node |-> 0, name |-> <<>>, out |-> "ok", val |-> None]

Init ==
    /\ g \in Graphs
    /\ ctx = InitContexts
    /\ pc = "created"
    /\ res = NoCall
    /\ ops = 0

\* bootstrap(): async with DeeiContext(target) as context: the root's
\* __aenter__ runs; when it raises, __aexit__ is not called
Bootstrap ==
    /\ pc = "created"
    /\ LET r == aenter(ctx, Root, {})
       IN /\ ctx' = r.c
          /\ pc' = IF r.out = "ok" THEN "yielded" ELSE "failed"
          /\ res' = [op |-> "bootstrap", node |-> Root, name |-> <<>>, out |-> r.out,
                     val |-> IF r.out = "ok" THEN get_target(r.c, Root) ELSE None]
    /\ UNCHANGED <<g, ops>>

\* the caller's block ends, normally or by an exception: root.__aexit__
LeaveBlock(raised) ==
    /\ pc = "yielded"
    /\ LET r == aexit(ctx, Root)
       IN /\ ctx' = r.c
          /\ res' = [op |-> "exit", node |-> Root, name |-> <<>>,
                     out |-> IF r.out # "ok" THEN r.out
                             ELSE IF raised THEN "BlockError" ELSE "ok",
                     val |-> None]
    /\ pc' = "exited"
    /\ UNCHANGED <<g, ops>>

\* a direct call of get_dependency(name) on the context n (asked: the history
\* of the names that callers have asked for)
GetDependency(n, name) ==
    /\ ops < MaxOps
    /\ LET r == get_dependency(ctx, n, name, {})
       IN /\ ctx' = [r.c EXCEPT !.asked = @ \cup {name}]
          /\ res' = [op |-> "get_dependency", node |-> n, name |-> name,
                     out |-> r.out, val |-> r.val]
    /\ ops' = ops + 1
    /\ UNCHANGED <<g, pc>>

\* the visibility queries read the graph alone: one step asks can_provide
\* (can_export) of every context for every name; out is the table of answers
CanProvide ==
    /\ res.op = "none"
    /\ res' = [op |-> "can_provide", node |-> 0, name |-> <<>>,
               out |-> [q \in g.nodes \X Names |-> can_provide(q[1], q[2], {})],
               val |-> None]
    /\ UNCHANGED <<g, ctx, pc, ops>>

CanExport ==
    /\ res.op = "none"
    /\ res' = [op |-> "can_export", node |-> 0, name |-> <<>>,
               out |-> [q \in g.nodes \X Names |-> can_export(q[1], q[2])],
               val |-> None]
    /\ UNCHANGED <<g, ctx, pc, ops>>

Next ==
    \/ Bootstrap
    \/ \E raised \in BOOLEAN : LeaveBlock(raised)
    \/ \E n \in g.nodes, name \in Names : GetDependency(n, name)
    \/ CanProvide
    \/ CanExport

Spec == Init /\ [][Next]_vars

(***************************************************************************)
(* Properties.                                                             *)
(***************************************************************************)
Range(s) == {s[i] : i \in DOMAIN s}
Reverse(s) == [i \in 1..Len(s) |-> s[Len(s) + 1 - i]]

\* the instances of the events of one kind, in the order they happened
InstSeq(kind) ==
    LET sel == SelectSeq(ctx.log, LAMBDA e : e.ev = kind)
    IN [i \in 1..Len(sel) |-> sel[i].inst]

Count(kind, inst) ==
    Cardinality({i \in DOMAIN ctx.log : ctx.log[i].ev = kind /\ ctx.log[i].inst = inst})

NothingFails == g.ctor_fails = {} /\ g.acquire_fails = {} /\ g.release_fails = {}

\* C1: when the root has exited after a successful bootstrap (and nothing but
\* bootstrap resolved anything), the scoped instances were released in exactly
\* the reverse of the order in which they were acquired.
C1_ReverseOrderRelease ==
    (pc = "exited" /\ ops = 0) => InstSeq("release") = Reverse(InstSeq("acquire"))

\* the root's first parameter is its own scoped provider p1, which was acquired,
\* its second is its own provider p2, whose constructor raised out of bootstrap
PartialFailureCase(p1, p2) ==
    /\ pc = "failed" /\ ops = 0 /\ res.op = "bootstrap" /\ res.out = "ConstructionError"
    /\ Len(hints(Root)) >= 2
    /\ p1 # 0 /\ p1 = OwnProvider(Root, hints(Root)[1])
    /\ p2 # 0 /\ p2 = OwnProvider(Root, hints(Root)[2])
    /\ Count("acquire", <<p1, 1>>) = 1
    /\ p2 \in g.ctor_fails

\* C2: after bootstrap failed because the root's second dependency P2 could not
\* be constructed, the release hook of its first dependency P1 has run exactly
\* once and the root's target was never constructed.
C2_PartialFailureUnwind ==
    \A p1, p2 \in g.nodes :
        PartialFailureCase(p1, p2) =>
            Count("release", <<p1, 1>>) = 1 /\ ctx.built[Root] = 0

\* C3: a request on B for the name of a provider of A, where B imports A and
\* A's exports list is empty, raises InjectionError; the same request on A
\* itself returns an instance.
C3_VisibilityEnforcement ==
    res.op = "get_dependency" =>
        \A a \in g.nodes :
            (g.exports[a] = {} /\ OwnProvider(a, res.name) # 0) =>
                /\ (a \in Range(imports(res.node)) => res.out = "InjectionError")
                /\ (a = res.node /\ NothingFails => res.out = "ok")

\* C4: a request on C for a name that A provides, where C imports B, B imports
\* A and A is not in B's exports, raises InjectionError.
C4_TransitiveExportGating ==
    res.op = "get_dependency" =>
        \A b \in Range(imports(res.node)) :
            \A a \in Range(imports(b)) :
                (a \notin g.exports[b] /\ OwnProvider(a, res.name) # 0) =>
                    res.out = "InjectionError"

\* C5: a request, on any context, for a name that no provider carries raises
\* InjectionError and leaves no cache entry under that name.
C5_MissingDependency ==
    (res.op = "get_dependency" /\ res.name = Missing) =>
        /\ res.out = "InjectionError"
        /\ \A n \in g.nodes : Missing \notin DOMAIN ctx.dependencies[n]

\* C6: on every context, all the get_dependency calls for one name that have
\* returned, returned one and the same instance, and the target behind it has
\* been constructed once.
C6_SingletonPerScope ==
    \A n \in g.nodes : \A name \in Names :
        \A v \in ctx.served[n][name] :
            ctx.served[n][name] = {v} /\ ctx.built[v[1]] = 1

\* after bootstrap resolved the root's parameters, the first of them is asked
\* for again on the root and the same instance comes back
C6_Witness ==
    /\ pc = "yielded" /\ res.op = "get_dependency" /\ res.out = "ok"
    /\ res.node = Root /\ Len(hints(Root)) >= 2 /\ res.name = hints(Root)[1]
    /\ ctx.served[Root][res.name] = {res.val}
    /\ ctx.served[Root][hints(Root)[2]] # {}

\* C7: once the caller's block has been left after bootstrap yielded (normally,
\* by an exception, or with a release hook raising), every instance whose
\* acquire hook ran has had its release hook invoked.
C7_BootstrapTeardown ==
    (pc = "exited" /\ ops = 0) =>
        \A i \in DOMAIN ctx.log :
            ctx.log[i].ev = "acquire" => Count("release", ctx.log[i].inst) >= 1

\* the block was left by an exception with three instances acquired on the
\* stacks of more than one context
C7_Witness ==
    /\ pc = "exited" /\ ops = 0 /\ res.out = "BlockError"
    /\ Len(InstSeq("acquire")) >= 3
    /\ Len(InstSeq("release")) = Len(InstSeq("acquire"))
    /\ imports(Root) # <<>>

\* the instance d was constructed, and acquired when it is scoped, and its
\* context marked entered, before the i-th event of the log
FullyEnteredBefore(d, i) ==
    /\ d # None
    /\ \E a \in 1..(i - 1) : ctx.log[a].ev = "construct" /\ ctx.log[a].inst = d
    /\ is_async_context_manager(d[1]) =>
          \E a \in 1..(i - 1) : ctx.log[a].ev = "acquire" /\ ctx.log[a].inst = d
    /\ d[1] \in ctx.log[i].entered

\* C8: every construction of a target received, for every name of its
\* dependency manifest, an instance whose context had fully entered before.
C8_OrderingGuarantee ==
    \A i \in DOMAIN ctx.log :
        ctx.log[i].ev = "construct" =>
            \A name \in Range(hints(ctx.log[i].inst[1])) :
                /\ name \in DOMAIN ctx.log[i].args
                /\ FullyEnteredBefore(ctx.log[i].args[name], i)

\* a provider was constructed from a scoped dependency
C8_Witness ==
    \E i \in DOMAIN ctx.log :
        /\ ctx.log[i].ev = "construct" /\ ctx.log[i].inst[1] # Root
        /\ \E name \in DOMAIN ctx.log[i].args :
              /\ is_async_context_manager(ctx.log[i].args[name][1])
              /\ FullyEnteredBefore(ctx.log[i].args[name], i)

\* the root imports m1 and m2; x is a provider of m1 without parameters;
\* q is a provider of m2 that takes x; the root takes q; no hook fails
SiblingCase(m1, m2, x, q) ==
    /\ m1 \in Range(imports(Root)) /\ m2 \in Range(imports(Root)) /\ m1 # m2
    /\ x \in Range(providers(m1)) /\ q \in Range(providers(m2))
    /\ hints(x) = <<>> /\ get_name(x) \in Range(hints(q))
    /\ get_name(q) \in Range(hints(Root))
    /\ g.ctor_fails = {} /\ g.acquire_fails = {}

\* C9: in that case bootstrap succeeds, x is constructed and acquired before q
\* is constructed from it, and x has been released once the root has exited.
C9_UpwardDelegationAcrossSiblings ==
    \A m1, m2, x, q \in g.nodes :
        SiblingCase(m1, m2, x, q) =>
            /\ pc # "failed"
            /\ pc \in {"yielded", "exited"} =>
                  \E i \in DOMAIN ctx.log :
                      /\ ctx.log[i].ev = "construct" /\ ctx.log[i].inst = <<q, 1>>
                      /\ ctx.log[i].args[get_name(x)] = <<x, 1>>
                      /\ FullyEnteredBefore(<<x, 1>>, i)
            /\ (pc = "exited" /\ is_async_context_manager(x)) =>
                  Count("release", <<x, 1>>) = 1

RECURSIVE ExportableAsStated(_, _)
\* can_export as the claim states it: an own provider, or a transitively
\* exported provider of an import that is listed in exports
ExportableAsStated(n, name) ==
    IF ~is_module(n) THEN "F"
    ELSE IF OwnProvider(n, name) # 0 THEN "T"
    ELSE IF \E i \in DOMAIN exports(n) : ExportableAsStated(exports(n)[i], name) = "T"
         THEN "T" ELSE "F"

\* C10: can_export(name) is false on a non-module context; on a module it is
\* true exactly when name is the name of an own provider or some import listed
\* in exports has can_export(name) true.
C10_CanExportAsStated ==
    res.op = "can_export" =>
        \A q \in DOMAIN res.out :
            /\ ~is_module(q[1]) => res.out[q] = "F"
            /\ (res.out[q] = "T") <=> (ExportableAsStated(q[1], q[2]) = "T")

RECURSIVE ProvidableAsStated(_, _)
\* can_provide as the claim states it: an own provider, or an import whose
\* can_export is true, or the parent's can_provide; false on the null parent
ProvidableAsStated(n, name) ==
    IF n = NullContext THEN FALSE
    ELSE \/ OwnProvider(n, name) # 0
         \/ \E i \in DOMAIN imports(n) : can_export(imports(n)[i], name) = "T"
         \/ ProvidableAsStated(parent(n), name)

\* C11: can_provide(name) on a context is true exactly when name is the name
\* of an own provider, or can_export(name) is true on some import, or
\* can_provide(name) is true on the parent (false for the root's null parent).
C11_CanProvideAsStated ==
    res.op = "can_provide" =>
        \A q \in DOMAIN res.out :
            (res.out[q] = "T") <=> ProvidableAsStated(q[1], q[2])

\* the number of events of one kind on the instances of the context n
CountOn(kind, n) ==
    Cardinality({i \in DOMAIN ctx.log : ctx.log[i].ev = kind /\ ctx.log[i].inst[1] = n})

\* C12: in every run every context constructs its target at most once, its
\* target's acquire hook completes at most once and its release hook runs at
\* most once, and a release hook runs only on an instance whose acquire hook
\* completed earlier.
C12_AtMostOnce ==
    /\ \A n \in g.nodes :
          /\ ctx.built[n] <= 1
          /\ CountOn("acquire", n) <= 1
          /\ CountOn("release", n) <= 1
    /\ \A i \in DOMAIN ctx.log :
          ctx.log[i].ev = "release" =>
              \E a \in 1..(i - 1) :
                  ctx.log[a].ev = "acquire" /\ ctx.log[a].inst = ctx.log[i].inst

\* C13: when get_dependency(name) on a context was satisfied by its parent (no
\* own provider, no exporting import), the returned instance is stored in the
\* context's own cache under name.
C13_ParentResultCachedLocally ==
    (/\ res.op = "get_dependency" /\ res.out = "ok"
     /\ route(res.node, res.name)[1] = "parent") =>
        /\ res.name \in DOMAIN ctx.dependencies[res.node]
        /\ ctx.dependencies[res.node][res.name] = res.val

\* C14: the value that the acquire hook of a scoped instance returned is the
\* instance of record of its context: get_target gives it, and every target
\* constructed from this dependency received it.
C14_AcquiredValueOfRecord ==
    \A i \in DOMAIN ctx.log :
        ctx.log[i].ev = "acquire" =>
            /\ ctx.aentered[ctx.log[i].inst[1]] =>
                  get_target(ctx, ctx.log[i].inst[1]) = ctx.log[i].args
            /\ \A j \in DOMAIN ctx.log :
                  ctx.log[j].ev = "construct" =>
                      \A name \in DOMAIN ctx.log[j].args :
                          ctx.log[j].args[name][1] = ctx.log[i].inst[1] =>
                              ctx.log[j].args[name] = ctx.log[i].args

RECURSIVE Demanded(_)
\* the names requested in the run: D, and the manifest names of every target
\* that a name of D stands for and of every module that was constructed
Demanded(D) ==
    LET more == UNION {Range(hints(n)) :
                         n \in {m \in g.nodes : \/ get_name(m) \in D
                                                \/ is_module(m) /\ ctx.built[m] >= 1}}
    IN IF more \subseteq D THEN D ELSE Demanded(D \cup more)

\* the names asked for by callers, and the root's manifest once bootstrap ran
Requested ==
    Demanded(ctx.asked \cup (IF pc = "created" THEN {} ELSE Range(hints(Root))))

\* C15: every declared provider and import has its context from the start,
\* and a provider whose name was never requested, by a caller or through the
\* manifest of a requested target, was never constructed, acquired or released.
C15_UnusedProviderNeverBuilt ==
    /\ \A n \in g.nodes \ {Root} :
          /\ parent(n) \in g.nodes
          /\ n \in Range(providers(parent(n))) \cup Range(imports(parent(n)))
          /\ ctx.aentered[n] \in BOOLEAN
    /\ \A p \in g.nodes :
          (~is_module(p) /\ get_name(p) \notin Requested) =>
              /\ ctx.built[p] = 0
              /\ CountOn("acquire", p) = 0 /\ CountOn("release", p) = 0
              /\ ~ctx.aentered[p]

\* a run to the end in which some providers were built and released while
\* another provider, never requested, stayed unbuilt
C15_Witness ==
    /\ pc = "exited" /\ res.out = "ok"
    /\ \E p, u \in g.nodes :
          /\ ~is_module(p) /\ ctx.built[p] = 1 /\ CountOn("release", p) = 1
          /\ ~is_module(u) /\ get_name(u) \notin Requested /\ ctx.built[u] = 0
          /\ parent(u) # Root

\* the root has exited after a bootstrap that alone resolved anything, and the
\* release hook of an acquired instance raised during the unwind
ReleaseFailureCase ==
    /\ pc = "exited" /\ ops = 0
    /\ \E i \in DOMAIN ctx.log :
          ctx.log[i].ev = "release" /\ ctx.log[i].inst[1] \in g.release_fails

\* C16: when a release hook raises during root exit, every instance that was
\* acquired, on any context's stack, has had its release hook invoked exactly
\* once, and the failure reaches the caller once the unwind is over.
C16_ReleaseFailureContinues ==
    ReleaseFailureCase =>
        /\ \A i \in DOMAIN ctx.log :
              ctx.log[i].ev = "acquire" => Count("release", ctx.log[i].inst) = 1
        /\ \A n \in g.nodes : ctx.exit_stack[n] = <<>>
        /\ res.op = "exit" /\ res.out = "ReleaseError"

\* the hook that raised was not the last to run: instances of the same stack
\* and of an enclosing context's stack were released after it
C16_Witness ==
    /\ ReleaseFailureCase
    /\ \E i, j, k \in DOMAIN ctx.log :
          /\ i < j /\ i < k /\ j # k
          /\ ctx.log[i].ev = "release" /\ ctx.log[i].inst[1] \in g.release_fails
          /\ ctx.log[j].ev = "release" /\ ctx.log[k].ev = "release"
          /\ parent(ctx.log[j].inst[1]) = parent(ctx.log[i].inst[1])
          /\ parent(ctx.log[k].inst[1]) # parent(ctx.log[i].inst[1])

\* C17: a get_dependency call made after the root has exited never returns an
\* instance whose release hook has already run.
C17_ExitIsTerminal ==
    (pc = "exited" /\ res.op = "get_dependency" /\ res.out = "ok") =>
        Count("release", res.val) = 0

\* the position in the log of the release of the instance v, 0 if none
ReleasedAt(v) ==
    LET at == {i \in DOMAIN ctx.log : ctx.log[i].ev = "release" /\ ctx.log[i].inst = v}
    IN IF at = {} THEN 0 ELSE CHOOSE i \in at : \A j \in at : i <= j

\* C18: after root exit, for every scoped instance Q that was constructed from
\* a scoped instance X of its manifest, the release hook of Q ran before the
\* release hook of X.
C18_DependentReleasedFirst ==
    (pc = "exited" /\ ops = 0) =>
        \A j \in DOMAIN ctx.log :
            (ctx.log[j].ev = "construct" /\ ReleasedAt(ctx.log[j].inst) # 0) =>
                \A name \in DOMAIN ctx.log[j].args :
                    ReleasedAt(ctx.log[j].args[name]) # 0 =>
                        ReleasedAt(ctx.log[j].inst) < ReleasedAt(ctx.log[j].args[name])

\* the targets whose names the manifests of the targets in S name
Needs(S) == {m \in g.nodes : \E n \in S : get_name(m) \in Range(hints(n))}

RECURSIVE NeedsWithin(_, _)
\* the targets that S depends on through at most k manifests (at least one)
NeedsWithin(S, k) ==
    IF k = 0 THEN {} ELSE Needs(S) \cup NeedsWithin(Needs(S), k - 1)

\* no target depends on itself through the manifests; the imports of every
\* graph explored form a tree
NoDependencyCycle ==
    \A n \in g.nodes : n \notin NeedsWithin({n}, Cardinality(g.nodes))

\* C19: on a graph without cyclic provider dependencies no call of
\* can_provide, can_export or get_dependency (bootstrap's included) recurses
\* without bound: each ends with a result or a resolution error.
C19_Termination ==
    NoDependencyCycle =>
        /\ res.op \in {"can_provide", "can_export"} =>
              \A q \in DOMAIN res.out : res.out[q] # "R"
        /\ res.op \in {"get_dependency", "bootstrap"} => res.out # "RecursionError"

\* C20: when can_provide(name) is true on a context and no constructor and no
\* acquire hook raises, get_dependency(name) on that context returns an
\* instance.
C20_VisibilityAgreesWithResolution ==
    (/\ res.op = "get_dependency"
     /\ can_provide(res.node, res.name, {}) = "T"
     /\ g.ctor_fails = {} /\ g.acquire_fails = {}) =>
        res.out = "ok" /\ res.val # None

====
